---- MODULE Spec2Model ----
(***************************************************************************)
(* INDbox v1 firmware (filtered variant, src/firmware/indbox_v1.ino lines  *)
(* 1-181): the fixed-rate sampling loop, the HC-SR04 ranging routine and   *)
(* the distance stabilizer (validity gate, sample-and-hold, slew limit,    *)
(* EMA smoothing).                                                         *)
(*                                                                         *)
(* Number representations                                                  *)
(*   uint32_t  : a pair <<hi, lo>> of 16-bit limbs, value hi*2^16 + lo,    *)
(*               arithmetic modulo 2^32.                                   *)
(*   float     : IEEE-754 binary32, 24-bit significand, round to nearest,  *)
(*               ties to even.  distFiltered is held as an integer count   *)
(*               of 2^-20 mm; every value the filter produces is a         *)
(*               multiple of that unit (see FilterExact).                  *)
(*   long      : integer.                                                  *)
(***************************************************************************)
EXTENDS Integers, Naturals, Sequences, FiniteSets, TLC

VARIABLES
    pc,                 \* "setup": setup() not yet run; "loop": loop() is called forever
    millis,             \* the millisecond clock read by millis(), uint32
    lastSampleMs,       \* static uint32_t lastSampleMs
    hasValidDistance,   \* static bool hasValidDistance
    lastGoodMm,         \* static long lastGoodMm
    distFiltered,       \* static float distFiltered, in units of 2^-20 mm
    trigPin,            \* level last written to PIN_US_TRIG
    headerLines,        \* number of header lines printed on Serial
    dataLines,          \* number of data records printed on Serial
    lastLine,           \* the last data record printed: <<btn1, btn2, pot, dist_mm>>
    hist,               \* what the last call of loop() saw and did
    hold,               \* the reading the environment keeps supplying, and for how long
    us,                 \* the last (or running) call of readUltrasonicMillimetersRaw
    variant,            \* which of the two programs of the file is flashed
    since               \* real milliseconds since lastSampleMs was taken: at the
                        \* gate of the last call of loop() (gate), and now (now)

vars == <<pc, millis, lastSampleMs, hasValidDistance, lastGoodMm, distFiltered,
          trigPin, headerLines, dataLines, lastLine, hist, hold, us, variant,
          since>>

----------------------------------------------------------------------------
(* Program constants                                                       *)

SAMPLE_INTERVAL_MS == 33

US_ECHO_TIMEOUT_US == 30000

DIST_INVALID == -1

DIST_MIN_MM == 50

DIST_MAX_MM == 2000

\* DIST_EMA_ALPHA = 0.25f = 1 / DIST_EMA_ALPHA_INV, exactly representable
DIST_EMA_ALPHA_INV == 4

ENABLE_SLEW_LIMIT == TRUE

MAX_STEP_PER_SAMPLE_MM == 80

\* SOUND_SPEED_MM_PER_US = 0.343f: the nearest binary32 value is
\* 11509170 * 2^-25 = (175 * 2^16 + 40370) * 2^-25
SOUND_SPEED_HI == 175

SOUND_SPEED_LO == 40370

LOW == "LOW"

HIGH == "HIGH"

----------------------------------------------------------------------------
(* Bounds of the model                                                     *)

\* data records emitted in a run of Spec
MaxTicks == 3

\* ticks from boot whose readings and outputs are logged
LogLen == 3

\* free ticks before the environment starts holding one reading (SpecSteady)
MaxPrefix == 2

\* ticks for which one reading is held (SpecSteady)
MaxHold == 130

\* data records emitted in a run of SpecWrap
MaxWrapTicks == 2

----------------------------------------------------------------------------
(* uint32_t arithmetic on 16-bit limbs                                     *)

W16 == 65536

U32Zero == <<0, 0>>

\* a + n modulo 2^32, for 0 <= n < 2^16
Add32(a, n) ==
    LET lo == a[2] + n
        hi == a[1] + (lo \div W16)
    IN  <<hi % W16, lo % W16>>

\* variant: the difference is 0 when a is below b, it does not wrap
Sub32Saturating(a, b) ==
    IF a[1] < b[1] \/ (a[1] = b[1] /\ a[2] < b[2])
    THEN U32Zero
    ELSE LET borrow == IF a[2] < b[2] THEN 1 ELSE 0
             lo == a[2] - b[2] + borrow * W16
             hi == a[1] - b[1] - borrow
         IN  <<hi, lo>>

\* a - b modulo 2^32
Sub32(a, b) ==
    LET borrow == IF a[2] < b[2] THEN 1 ELSE 0
        lo == a[2] - b[2] + borrow * W16
        hi == a[1] - b[1] - borrow
    IN  <<(hi + W16) % W16, lo>>

\* variant: a <= n
Lt32Inclusive(a, n) == a[1] = 0 /\ a[2] <= n

\* a < n as unsigned, for 0 <= n < 2^16
Lt32(a, n) == a[1] = 0 /\ a[2] < n

----------------------------------------------------------------------------
(* binary32 arithmetic on integers in units of 2^-20                       *)

Q20 == 1048576

F32Half == Q20 \div 2

Abs(n) == IF n < 0 THEN -n ELSE n

\* the spacing of binary32 values around a, in units of 2^-20 (a >= 0)
RECURSIVE F32Quantum(_)
F32Quantum(a) == IF a < 16777216 THEN 1 ELSE 2 * F32Quantum(a \div 2)

\* round to nearest representable value, ties to even
F32Round(n) ==
    LET a  == Abs(n)
        q  == F32Quantum(a)
        r  == a % q
        dn == a - r
        up == IF 2 * r > q \/ (2 * r = q /\ (dn \div q) % 2 = 1) THEN dn + q ELSE dn
    IN  IF n < 0 THEN -up ELSE up

F32Add(x, y) == F32Round(x + y)

F32Sub(x, y) == F32Round(x - y)

\* (float)n for a long n below 2^24: exact
F32FromLong(n) == n * Q20

\* (long)x: truncation toward zero
F32ToLong(x) == IF x < 0 THEN -((-x) \div Q20) ELSE x \div Q20

\* DIST_EMA_ALPHA * x: scaling by a power of two is exact
F32MulAlpha(x) == IF x < 0 THEN -((-x) \div DIST_EMA_ALPHA_INV) ELSE x \div DIST_EMA_ALPHA_INV

----------------------------------------------------------------------------
(* binary32 arithmetic on 40-bit integers <<hi, lo>> = hi*2^16 + lo, used  *)
(* for the time-of-flight conversion, whose product does not fit 32 bits   *)

\* 2^s, where s is the number of low bits a 24-bit significand drops
RECURSIVE F32Drop(_)
F32Drop(hi) == IF hi < 256 THEN 1 ELSE 2 * F32Drop(hi \div 2)

\* round <<hi, lo>> to 24 significant bits, ties to even (hi < 2^23)
F32RoundWide(n) ==
    LET q  == F32Drop(n[1])
        r  == n[2] % q
        dn == n[2] - r
        up == IF 2 * r > q \/ (2 * r = q /\ (dn \div q) % 2 = 1) THEN dn + q ELSE dn
    IN  <<n[1] + (up \div W16), up % W16>>

----------------------------------------------------------------------------
(* Ultrasonic raw measurement                                              *)

\* what pulseIn(PIN_US_ECHO, HIGH, US_ECHO_TIMEOUT_US) can return:
\* 0 on timeout, else the pulse width in microseconds
PulseWidths == 0..US_ECHO_TIMEOUT_US

\* variant: the conversion truncates, 0.5f is not added
readUltrasonicMillimetersTrunc(duration_us) ==
    IF duration_us = 0
    THEN DIST_INVALID
    ELSE LET lop  == duration_us * SOUND_SPEED_LO
             prod == <<duration_us * SOUND_SPEED_HI + (lop \div W16), lop % W16>>
             mm   == F32RoundWide(prod)
         IN  mm[1] \div 1024

\* the value returned for a pulse width duration_us
readUltrasonicMillimetersRaw(duration_us) ==
    IF duration_us = 0
    THEN DIST_INVALID
    ELSE LET \* duration_us * SOUND_SPEED_MM_PER_US, exact, in units of 2^-25 mm
             lop  == duration_us * SOUND_SPEED_LO
             prod == <<duration_us * SOUND_SPEED_HI + (lop \div W16), lop % W16>>
             \* ... rounded to float; * 0.5f is exact: now in units of 2^-26 mm
             mm   == F32RoundWide(prod)
             \* mm + 0.5f, where 0.5 = 512 * 2^16 * 2^-26, rounded to float
             sum  == F32RoundWide(<<mm[1] + 512, mm[2]>>)
         IN  \* (long): 2^26 = 1024 * 2^16
             sum[1] \div 1024

\* the levels readUltrasonicMillimetersRaw writes to PIN_US_TRIG, in order
TrigWrites == <<LOW, HIGH, LOW>>

\* no call made yet
usIdle == [pc |-> "idle", trig |-> LOW, writes |-> <<>>, waits |-> 0,
           duration |-> 0, ret |-> 0]

\* entry of a call, the trigger line at level trig
usCall(trig) == [pc |-> "settle", trig |-> trig, writes |-> <<>>, waits |-> 0,
                 duration |-> 0, ret |-> 0]

\* digitalWrite(PIN_US_TRIG, level)
usWrite(u, level, next) ==
    [u EXCEPT !.trig = level, !.writes = Append(@, level), !.pc = next]

\* variant: the trigger pulse is never ended
usStepNoRelease(u, echo_us) ==
    IF u.pc = "settle" THEN usWrite(u, LOW, "pulse")
    ELSE IF u.pc = "pulse" THEN usWrite(u, HIGH, "echo")
    ELSE IF u.pc = "echo"
         THEN [u EXCEPT !.waits = @ + 1, !.duration = echo_us, !.pc = "convert"]
    ELSE IF u.pc = "convert"
         THEN [u EXCEPT !.ret = readUltrasonicMillimetersRaw(u.duration), !.pc = "done"]
    ELSE u

\* one statement of readUltrasonicMillimetersRaw; echo_us is what pulseIn
\* returns when it is reached
usStep(u, echo_us) ==
    IF u.pc = "settle" THEN usWrite(u, LOW, "pulse")          \* lines 68-69
    ELSE IF u.pc = "pulse" THEN usWrite(u, HIGH, "release")   \* lines 71-72
    ELSE IF u.pc = "release" THEN usWrite(u, LOW, "echo")     \* line 73
    ELSE IF u.pc = "echo"                                     \* line 75
         THEN [u EXCEPT !.waits = @ + 1, !.duration = echo_us, !.pc = "convert"]
    ELSE IF u.pc = "convert"                                  \* lines 76-81
         THEN [u EXCEPT !.ret = readUltrasonicMillimetersRaw(u.duration), !.pc = "done"]
    ELSE u

\* a whole call, from u to the return
RECURSIVE usRun(_, _)
usRun(u, echo_us) == IF u.pc = "done" THEN u ELSE usRun(usStep(u, echo_us), echo_us)

----------------------------------------------------------------------------
(* Buttons                                                                 *)

\* variant: the pin level is not inverted
buttonOfLevel(level) == IF level = HIGH THEN 1 ELSE 0

\* active LOW -> invert so pressed = 1
buttonOf(level) == IF level = LOW THEN 1 ELSE 0

----------------------------------------------------------------------------
(* Distance stabilizer                                                     *)

\* variant: the lower limit of the range is not checked
isDistanceValidNoMin(mm) == mm <= DIST_MAX_MM

\* variant: every non-negative distance up to the maximum is accepted
isDistanceValidFromZero(mm) == mm >= 0 /\ mm <= DIST_MAX_MM

isDistanceValid(mm) == mm >= DIST_MIN_MM /\ mm <= DIST_MAX_MM

\* variant: the step is not limited
clampStepUnclamped(current, target, maxStep) == target

\* variant: only upward steps are limited
clampStepOneSided(current, target, maxStep) ==
    LET delta == target - current
    IN  IF delta > maxStep THEN current + maxStep ELSE target

clampStep(current, target, maxStep) ==
    LET delta == target - current
    IN  IF delta > maxStep THEN current + maxStep
        ELSE IF delta < -maxStep THEN current - maxStep
        ELSE target

\* (long)(x + 0.5f)
roundToLong(x) == F32ToLong(F32Add(x, F32Half))

\* variant: every reading replaces lastGoodMm, nothing is held
acceptReadingAlways(rawMm, good) == rawMm

\* variant: a rejected reading clears lastGoodMm instead of holding it
acceptReadingOrZero(rawMm, good) == IF isDistanceValid(rawMm) THEN rawMm ELSE 0

\* 1) range/validity check: the new lastGoodMm
acceptReading(rawMm, good) == IF isDistanceValid(rawMm) THEN rawMm ELSE good

\* variant: the flag follows the validity of the current reading
markValidFollows(rawMm, has) == isDistanceValid(rawMm)

\* ... the new hasValidDistance
markValid(rawMm, has) == IF isDistanceValid(rawMm) THEN TRUE ELSE has

\* variant: the filter is not seeded and ramps up from 0
seedFilterNone(rawMm, has, filt) == filt

\* ... the first valid reading initializes the filter
seedFilter(rawMm, has, filt) ==
    IF isDistanceValid(rawMm) /\ ~has THEN F32FromLong(rawMm) ELSE filt

\* 2) + 3) target distance, slew limited
targetOf(has, good, filt) ==
    LET targetMm == IF has THEN good ELSE 0
    IN  IF ENABLE_SLEW_LIMIT /\ has
        THEN clampStep(roundToLong(filt), targetMm, MAX_STEP_PER_SAMPLE_MM)
        ELSE targetMm

\* variant: the filter state is kept in whole millimetres
emaStepWhole(has, filt, targetMm) ==
    IF has
    THEN F32FromLong(F32ToLong(
             F32Add(filt, F32MulAlpha(F32Sub(F32FromLong(targetMm), filt)))))
    ELSE filt

\* variant: the correction is subtracted
emaStepAway(has, filt, targetMm) ==
    IF has
    THEN F32Sub(filt, F32MulAlpha(F32Sub(F32FromLong(targetMm), filt)))
    ELSE filt

\* 4) EMA smoothing (only if initialized)
emaStep(has, filt, targetMm) ==
    IF has
    THEN F32Add(filt, F32MulAlpha(F32Sub(F32FromLong(targetMm), filt)))
    ELSE filt

\* variant: the no-echo sentinel is the placeholder
outputOfSentinel(has, filt) == IF has THEN roundToLong(filt) ELSE DIST_INVALID

\* output integer millimeters
outputOf(has, filt) == IF has THEN roundToLong(filt) ELSE 0

----------------------------------------------------------------------------
(* The environment                                                         *)

\* echo pulse widths tried, in microseconds: timeout, and widths that convert
\* to 49, 50, 500, 1800, 2000 and 2001 mm
Echoes == {0, 286, 292, 2915, 10496, 11662, 11668}

\* ... and, where one echo is held, also the widths that convert to 0 mm and
\* to 5145 mm, the shortest and the longest pulse
SteadyEchoes == Echoes \cup {1, US_ECHO_TIMEOUT_US}

\* milliseconds between two successive calls of millis()
Elapsed == {11, 33}

PinLevels == {LOW, HIGH}

AdcReadings == {0, 2048}

----------------------------------------------------------------------------
(* Initial state: the statics of loop() as initialized, the clock at boot  *)

Statics ==
    /\ pc = "setup"
    /\ millis = U32Zero
    /\ lastSampleMs = U32Zero
    /\ hasValidDistance = FALSE
    /\ lastGoodMm = 0
    /\ distFiltered = 0
    /\ trigPin = LOW
    /\ headerLines = 0
    /\ dataLines = 0
    /\ lastLine = <<>>
    /\ hist = [ticked |-> FALSE, rawMm |-> 0, preHas |-> FALSE, preGood |-> 0,
               preFiltered |-> 0, prevOut |-> 0, targetMm |-> 0,
               runR |-> 0, runN |-> 0, rawLog |-> <<>>, outLog |-> <<>>,
               pin1 |-> HIGH, pin2 |-> HIGH, adc |-> 0]
    /\ hold = [echo |-> 0, ticks |-> 0]
    /\ us = usIdle
    /\ since = [gate |-> 0, now |-> 0]

\* the two programs of indbox_v1.ino: lines 1-181 and lines 183-334
Variants == {"filtered", "unfiltered"}

\* the filtered firmware at boot
Init == Statics /\ variant = "filtered"

\* either firmware at boot
InitVariants == Statics /\ variant \in Variants

\* variant: no header is printed
setupSilent ==
    /\ pc = "setup"
    /\ pc' = "loop"
    /\ UNCHANGED <<millis, lastSampleMs, hasValidDistance, lastGoodMm, distFiltered,
                   trigPin, headerLines, dataLines, lastLine, hist, hold, us, variant,
                   since>>

\* setup(): configures the pins and prints the CSV header
setup ==
    /\ pc = "setup"
    /\ pc' = "loop"
    /\ headerLines' = headerLines + 1
    /\ UNCHANGED <<millis, lastSampleMs, hasValidDistance, lastGoodMm, distFiltered,
                   trigPin, dataLines, lastLine, hist, hold, us, variant, since>>

\* the run of consecutive NoEcho readings that follows a valid reading R:
\* <<R, length>>, <<0, 0>> when the last Distance was not in range
runAfter(rawMm, runR, runN) ==
    IF rawMm >= DIST_MIN_MM /\ rawMm <= DIST_MAX_MM THEN <<rawMm, 0>>
    ELSE IF rawMm = DIST_INVALID /\ runR # 0 THEN <<runR, runN + 1>>
    ELSE <<0, 0>>

\* the log of the first LogLen ticks, extended by v
logOf(log, v) == IF Len(log) < LogLen THEN Append(log, v) ELSE log

\* loop() past the tick gate (lines 127-180) at clock value nowMs: the
\* environment presents button pin levels of Pins, an ADC reading of Adcs and
\* an echo pulse width of Widths (0: no echo within the timeout)
sample(nowMs, Pins, Adcs, Widths) ==
    \E duration_us \in Widths :
    \E u \in {usRun(usCall(trigPin), duration_us)} :
    \E rawMm \in {u.ret} :
    \E good \in {acceptReading(rawMm, lastGoodMm)},
       seeded \in {seedFilter(rawMm, hasValidDistance, distFiltered)},
       has \in {markValid(rawMm, hasValidDistance)} :
    \E targetMm \in {targetOf(has, good, seeded)} :
    \E filt \in {emaStep(has, seeded, targetMm)} :
    \E outMm \in {outputOf(has, filt)} :
    \E pin1 \in Pins, pin2 \in Pins, adc \in Adcs :
        LET btn1 == buttonOf(pin1)
            btn2 == buttonOf(pin2)
            pot  == adc
            run  == runAfter(rawMm, hist.runR, hist.runN)
        IN  /\ lastSampleMs' = nowMs
            /\ us' = u
            /\ trigPin' = u.trig
            /\ lastGoodMm' = good
            /\ hasValidDistance' = has
            /\ distFiltered' = filt
            /\ dataLines' = dataLines + 1
            /\ lastLine' = <<btn1, btn2, pot, outMm>>
            /\ hist' = [ticked |-> TRUE, rawMm |-> rawMm,
                        preHas |-> hasValidDistance,
                        preGood |-> lastGoodMm,
                        preFiltered |-> distFiltered,
                        prevOut |-> IF dataLines = 0 THEN 0 ELSE lastLine[4],
                        targetMm |-> targetMm,
                        runR |-> run[1], runN |-> run[2],
                        rawLog |-> logOf(hist.rawLog, rawMm),
                        outLog |-> logOf(hist.outLog, outMm),
                        pin1 |-> pin1, pin2 |-> pin2, adc |-> adc]
            /\ UNCHANGED <<pc, headerLines, variant>>

\* one call of loop(), elapsed ms after the previous call read the clock; the
\* pins, the ADC and the echo are read only if a tick is due
loop(elapsed, Pins, Adcs, Widths) ==
    /\ pc = "loop"
    /\ \E nowMs \in {Add32(millis, elapsed)} :
        /\ millis' = nowMs
        /\ IF Lt32(Sub32(nowMs, lastSampleMs), SAMPLE_INTERVAL_MS)
           THEN /\ hist' = [hist EXCEPT !.ticked = FALSE]
                /\ since' = [gate |-> since.now + elapsed, now |-> since.now + elapsed]
                /\ UNCHANGED <<pc, lastSampleMs, hasValidDistance, lastGoodMm,
                               distFiltered, trigPin, headerLines, dataLines,
                               lastLine, us, variant>>
           ELSE /\ since' = [gate |-> since.now + elapsed, now |-> 0]
                /\ sample(nowMs, Pins, Adcs, Widths)

\* loop() of the unfiltered program past its tick gate (lines 313-333): the
\* raw reading is printed as it is
sampleRaw(nowMs, Pins, Adcs, Widths) ==
    \E duration_us \in Widths :
    \E u \in {usRun(usCall(trigPin), duration_us)} :
    \E pin1 \in Pins, pin2 \in Pins, adc \in Adcs :
        LET btn1    == buttonOf(pin1)
            btn2    == buttonOf(pin2)
            pot     == adc
            dist_mm == u.ret
        IN  /\ lastSampleMs' = nowMs
            /\ us' = u
            /\ trigPin' = u.trig
            /\ dataLines' = dataLines + 1
            /\ lastLine' = <<btn1, btn2, pot, dist_mm>>
            /\ hist' = [hist EXCEPT !.ticked = TRUE, !.rawMm = dist_mm,
                                    !.prevOut = IF dataLines = 0 THEN 0 ELSE lastLine[4],
                                    !.rawLog = logOf(@, dist_mm),
                                    !.outLog = logOf(@, dist_mm),
                                    !.pin1 = pin1, !.pin2 = pin2, !.adc = adc]
            /\ UNCHANGED <<pc, headerLines, variant, hasValidDistance, lastGoodMm,
                           distFiltered>>

\* one call of loop() of the unfiltered program (lines 306-334)
loopRaw(elapsed, Pins, Adcs, Widths) ==
    /\ pc = "loop"
    /\ \E nowMs \in {Add32(millis, elapsed)} :
        /\ millis' = nowMs
        /\ IF Lt32(Sub32(nowMs, lastSampleMs), SAMPLE_INTERVAL_MS)
           THEN /\ hist' = [hist EXCEPT !.ticked = FALSE]
                /\ since' = [gate |-> since.now + elapsed, now |-> since.now + elapsed]
                /\ UNCHANGED <<pc, lastSampleMs, hasValidDistance, lastGoodMm,
                               distFiltered, trigPin, headerLines, dataLines,
                               lastLine, us, variant>>
           ELSE /\ since' = [gate |-> since.now + elapsed, now |-> 0]
                /\ sampleRaw(nowMs, Pins, Adcs, Widths)

----------------------------------------------------------------------------
(* Spec: the firmware under every environment, up to MaxTicks records      *)

Sample ==
    /\ dataLines < MaxTicks
    /\ \E elapsed \in Elapsed : loop(elapsed, PinLevels, AdcReadings, Echoes)
    /\ UNCHANGED hold

Next == setup \/ Sample

Spec == Init /\ [][Next]_vars

----------------------------------------------------------------------------
(* SpecSteady: after at most MaxPrefix arbitrary ticks the sensor returns  *)
(* the same echo on every tick, for up to MaxHold ticks; loop() is called  *)
(* exactly when a tick is due, with the buttons released                   *)

FreeTick ==
    /\ hold.ticks = 0
    /\ dataLines < MaxPrefix
    /\ loop(SAMPLE_INTERVAL_MS, {HIGH}, {0}, SteadyEchoes)
    /\ UNCHANGED hold

HeldTick ==
    /\ hold.ticks < MaxHold
    /\ \E duration_us \in SteadyEchoes :
        /\ hold.ticks > 0 => duration_us = hold.echo
        /\ loop(SAMPLE_INTERVAL_MS, {HIGH}, {0}, {duration_us})
        /\ hold' = [echo |-> duration_us, ticks |-> hold.ticks + 1]

NextSteady == setup \/ FreeTick \/ HeldTick

SpecSteady == Init /\ [][NextSteady]_vars

----------------------------------------------------------------------------
(* SpecVariants: either program of the file, under every environment       *)

SampleFiltered ==
    /\ variant = "filtered"
    /\ dataLines < MaxTicks
    /\ \E elapsed \in Elapsed : loop(elapsed, PinLevels, AdcReadings, Echoes)
    /\ UNCHANGED hold

SampleUnfiltered ==
    /\ variant = "unfiltered"
    /\ dataLines < MaxTicks
    /\ \E elapsed \in Elapsed : loopRaw(elapsed, PinLevels, AdcReadings, Echoes)
    /\ UNCHANGED hold

NextVariants == setup \/ SampleFiltered \/ SampleUnfiltered

SpecVariants == InitVariants /\ [][NextVariants]_vars

----------------------------------------------------------------------------
(* SpecGate: either program, loop() called early, on time and late, with   *)
(* the buttons released and an echo of 500 mm or none                      *)

\* milliseconds between two calls of loop(): early, just early, due, late,
\* and late by more than two intervals
GateElapsed == {5, 32, 33, 34, 77}

GateEchoes == {0, 2915}

CheckFiltered ==
    /\ variant = "filtered"
    /\ dataLines < MaxTicks
    /\ \E elapsed \in GateElapsed : loop(elapsed, {HIGH}, {0}, GateEchoes)
    /\ UNCHANGED hold

CheckUnfiltered ==
    /\ variant = "unfiltered"
    /\ dataLines < MaxTicks
    /\ \E elapsed \in GateElapsed : loopRaw(elapsed, {HIGH}, {0}, GateEchoes)
    /\ UNCHANGED hold

NextGate == setup \/ CheckFiltered \/ CheckUnfiltered

SpecGate == InitVariants /\ [][NextGate]_vars

----------------------------------------------------------------------------
(* SpecRanging: one call of readUltrasonicMillimetersRaw, statement by     *)
(* statement, for every pulse width pulseIn can return                     *)

\* the call is entered from loop(), after setup(), the trigger line low;
\* hold.echo is the pulse width the sensor is going to present
InitRanging ==
    /\ pc = "loop"
    /\ millis = U32Zero
    /\ lastSampleMs = U32Zero
    /\ hasValidDistance = FALSE
    /\ lastGoodMm = 0
    /\ distFiltered = 0
    /\ trigPin = LOW
    /\ headerLines = 1
    /\ dataLines = 0
    /\ lastLine = <<>>
    /\ hist = [ticked |-> FALSE, rawMm |-> 0, preHas |-> FALSE, preGood |-> 0,
               preFiltered |-> 0, prevOut |-> 0, targetMm |-> 0,
               runR |-> 0, runN |-> 0, rawLog |-> <<>>, outLog |-> <<>>,
               pin1 |-> HIGH, pin2 |-> HIGH, adc |-> 0]
    /\ hold \in {[echo |-> w, ticks |-> 0] : w \in PulseWidths}
    /\ us = usCall(LOW)
    /\ variant = "filtered"
    /\ since = [gate |-> 0, now |-> 0]

RangingStep ==
    /\ us.pc # "done"
    /\ us' = usStep(us, hold.echo)
    /\ trigPin' = us'.trig
    /\ UNCHANGED <<pc, millis, lastSampleMs, hasValidDistance, lastGoodMm,
                   distFiltered, headerLines, dataLines, lastLine, hist, hold,
                   variant, since>>

NextRanging == RangingStep

SpecRanging == InitRanging /\ [][NextRanging]_vars

----------------------------------------------------------------------------
(* The emitted distance and the filter state in millimetres                *)

\* dist_mm of the last record
outMm == lastLine[4]

\* distFiltered is a whole number of 2^-18 mm, so that DIST_EMA_ALPHA times a
\* difference of two filter values is a whole number of 2^-20 mm
FilterExact == distFiltered % 4 = 0

\* the reading of the last tick was rejected: NoEcho, or a Distance out of range
Rejected == hist.rawMm = DIST_INVALID \/ hist.rawMm < DIST_MIN_MM \/ hist.rawMm > DIST_MAX_MM

\* the reading of the last tick was a Distance in range
Accepted == hist.rawMm >= DIST_MIN_MM /\ hist.rawMm <= DIST_MAX_MM

\* the reading held by the environment of SpecSteady, in mm
heldMm == readUltrasonicMillimetersRaw(hold.echo)

----------------------------------------------------------------------------
(* C1  No sentinel leakage: whatever readings were fed since boot, the     *)
(* emitted dist_mm is never -1; it is 0 while the filter is uninitialized  *)
(* and a value in [50, 2000] once it is initialized.                       *)

NoSentinelLeak ==
    dataLines >= 1 =>
        /\ outMm # DIST_INVALID
        /\ ~hasValidDistance => outMm = 0
        /\ hasValidDistance => (outMm >= DIST_MIN_MM /\ outMm <= DIST_MAX_MM)

\* a NoEcho tick while the output sits at the upper end of the range, after the
\* filter has climbed there from another value
NoSentinelLeakWitness ==
    /\ hist.ticked /\ hist.rawMm = DIST_INVALID
    /\ outMm = DIST_MAX_MM /\ distFiltered # hist.preFiltered

----------------------------------------------------------------------------
(* C2  Slew bound: on two consecutive post-initialization ticks the two    *)
(* emitted values differ by at most MAX_STEP_PER_SAMPLE_MM.                *)

SlewBound ==
    (hist.ticked /\ hist.preHas) =>
        Abs(outMm - hist.prevOut) <= MAX_STEP_PER_SAMPLE_MM

\* a post-initialization tick whose target was clamped and whose output moved
SlewBoundWitness ==
    /\ hist.ticked /\ hist.preHas
    /\ lastGoodMm - hist.prevOut > MAX_STEP_PER_SAMPLE_MM
    /\ hist.targetMm = hist.prevOut + MAX_STEP_PER_SAMPLE_MM
    /\ outMm > hist.prevOut

----------------------------------------------------------------------------
(* C3  Gating: a tick whose reading is NoEcho, below 50 or above 2000      *)
(* leaves lastGoodMm unchanged and does not set hasValidDistance.          *)

GatingFrame ==
    (hist.ticked /\ Rejected) =>
        /\ lastGoodMm = hist.preGood
        /\ ~hist.preHas => ~hasValidDistance

\* an above-range Distance arrives while 500 is held
GatingFrameWitness ==
    /\ hist.ticked /\ hist.rawMm = DIST_MAX_MM + 1
    /\ hist.preHas /\ hist.preGood = 500 /\ lastGoodMm = 500

----------------------------------------------------------------------------
(* C4  Sample-and-hold: on each of the NoEcho ticks that follow a valid    *)
(* reading R, lastGoodMm is R and distFiltered is no farther from R than   *)
(* it was before the tick.                                                 *)

HoldConverges ==
    (hist.ticked /\ hist.runN >= 1) =>
        /\ lastGoodMm = hist.runR
        /\ Abs(distFiltered - F32FromLong(hist.runR))
               <= Abs(hist.preFiltered - F32FromLong(hist.runR))

\* the 50th NoEcho tick in a row, the filter still on its way to R
HoldConvergesWitness ==
    /\ hist.ticked /\ hist.runN = 50
    /\ distFiltered # hist.preFiltered
    /\ distFiltered # F32FromLong(hist.runR)

----------------------------------------------------------------------------
(* C5  Initialization seeding: on the first tick whose reading V is in     *)
(* range, distFiltered is exactly V at the end of the tick and the emitted *)
(* dist_mm is V.                                                           *)

SeedExact ==
    (hist.ticked /\ ~hist.preHas /\ Accepted) =>
        /\ distFiltered = F32FromLong(hist.rawMm)
        /\ outMm = hist.rawMm

\* the first valid reading, 1800, arrives on the third tick
SeedExactWitness ==
    /\ hist.ticked /\ dataLines = 3 /\ ~hist.preHas
    /\ hist.rawMm = 1800 /\ outMm = 1800

----------------------------------------------------------------------------
(* C6  hasValidDistance, once true, is true ever after.                    *)

InitializedStable == [][hasValidDistance => hasValidDistance']_vars

\* a rejected reading on an initialized filter
InitializedStableWitness ==
    hist.ticked /\ hist.preHas /\ Rejected /\ hasValidDistance

----------------------------------------------------------------------------
(* C7  Convergence: when the same valid reading V has been supplied for    *)
(* ConvergeTicks ticks or more, from whatever state, distFiltered is       *)
(* within 1 mm of V.                                                       *)

\* ticks of constant input after which the filter has converged: the slew
\* phase covers the range at a quarter of the maximum step per tick, the tail
\* shrinks geometrically
ConvergeTicks ==
    (DIST_MAX_MM - DIST_MIN_MM) \div (MAX_STEP_PER_SAMPLE_MM \div DIST_EMA_ALPHA_INV) + 16

Converges ==
    (hold.ticks >= ConvergeTicks /\ isDistanceValid(heldMm)) =>
        Abs(distFiltered - F32FromLong(heldMm)) <= Q20

\* 2000 held long enough from a state whose output was below 100: the filter
\* has arrived within 1 mm, short of 2000 itself
ConvergesWitness ==
    /\ hold.ticks >= ConvergeTicks /\ heldMm = DIST_MAX_MM
    /\ Len(hist.outLog) >= 1 /\ hist.outLog[Len(hist.outLog)] < 100
    /\ hist.outLog[Len(hist.outLog)] > 0
    /\ distFiltered # F32FromLong(DIST_MAX_MM)
    /\ Abs(distFiltered - F32FromLong(heldMm)) <= Q20

----------------------------------------------------------------------------
(* C8  End-to-end example: from boot, Distance(500), NoEcho, Distance(1800)*)
(* gives the outputs 500, 500, 520; lastGoodMm is 500 after tick 2 and     *)
(* 1800 after tick 3, where the target is clamped to 580 and distFiltered  *)
(* becomes 520.                                                            *)

EndToEnd ==
    /\ (dataLines = 2 /\ hist.rawLog = <<500, DIST_INVALID>>) =>
            /\ hist.outLog = <<500, 500>>
            /\ lastGoodMm = 500
    /\ (dataLines = 3 /\ hist.rawLog = <<500, DIST_INVALID, 1800>>) =>
            /\ hist.outLog = <<500, 500, 520>>
            /\ hist.preGood = 500
            /\ lastGoodMm = 1800
            /\ hist.targetMm = 580
            /\ distFiltered = F32FromLong(520)

EndToEndWitness ==
    dataLines = 3 /\ hist.rawLog = <<500, DIST_INVALID, 1800>> /\ outMm = 520

----------------------------------------------------------------------------
(* C9  Placeholder: every tick before the first accepted reading emits     *)
(* dist_mm = 0, and no tick after it does.                                 *)

Placeholder ==
    dataLines >= 1 =>
        /\ ~hasValidDistance => outMm = 0
        /\ hasValidDistance => outMm # 0

\* the third rejected reading in a row since boot
PlaceholderWitness ==
    /\ hist.ticked /\ dataLines = 3 /\ ~hasValidDistance
    /\ Rejected /\ outMm = 0

----------------------------------------------------------------------------
(* C11  Tick gate: a call of loop() less than SAMPLE_INTERVAL_MS after the *)
(* last sample changes nothing; a call at or after the interval, however   *)
(* late, runs one tick: one measurement, one record, and the next interval *)
(* starts at that call.                                                    *)

\* a clock value as a number (below 2^31)
U32Val(a) == a[1] * W16 + a[2]

GateStep ==
    [][(pc = "loop" /\ millis' # millis) =>
           IF U32Val(millis') - U32Val(lastSampleMs) < SAMPLE_INTERVAL_MS
           THEN UNCHANGED <<lastSampleMs, hasValidDistance, lastGoodMm, distFiltered,
                            trigPin, headerLines, dataLines, lastLine, us>>
           ELSE /\ dataLines' = dataLines + 1
                /\ lastSampleMs' = millis'
                /\ us'.waits = 1
                /\ hist'.ticked]_vars

\* the first call comes 77 ms after boot and emits one record; the call 5 ms
\* later emits nothing
GateStepWitness ==
    /\ ~hist.ticked /\ dataLines = 1
    /\ U32Val(lastSampleMs) = 77 /\ U32Val(millis) = 82

----------------------------------------------------------------------------
(* C12  Ranging: the call returns -1 exactly when the pulse width is 0;    *)
(* for a width d > 0 it returns d * 0.343 / 2 rounded to the nearest       *)
(* millimetre (halves up), which is not negative.                          *)

RangingResult ==
    us.pc = "done" =>
        /\ us.ret = DIST_INVALID <=> hold.echo = 0
        /\ hold.echo # 0 =>
              /\ us.ret = (343 * hold.echo + 1000) \div 2000
              /\ us.ret >= 0

\* 3000 us is 514.5 mm, returned as 515
RangingResultWitness ==
    us.pc = "done" /\ hold.echo = 3000 /\ us.ret = 515

----------------------------------------------------------------------------
(* C13  Record: a data record has the four fields btn1, btn2, pot, dist_mm *)
(* in that order; a button field is 1 for a pin read LOW and 0 for HIGH,   *)
(* pot is the ADC reading as read.                                         *)

----------------------------------------------------------------------------
(* C14  Data format.  As documented: a data line has the five fields btn1, *)
(* btn2, pot, dist1, dist2, a distance being -1 when no echo was received. *)

----------------------------------------------------------------------------
(* C15  Header: the header line is printed once, by setup(), before any    *)
(* data record, and never by loop().                                       *)

HeaderOnce ==
    /\ pc = "setup" => (headerLines = 0 /\ dataLines = 0)
    /\ pc = "loop" => headerLines = 1

\* three records out, still one header
HeaderOnceWitness == pc = "loop" /\ dataLines = 3 /\ headerLines = 1

----------------------------------------------------------------------------
(* C16  Slew-limited target: on a tick of the initialized filter the       *)
(* target is within MAX_STEP_PER_SAMPLE_MM of the rounded filter value; it *)
(* is lastGoodMm when that is within the step, else the rounded value plus *)
(* or minus the step, toward lastGoodMm.                                   *)

\* the rounded filter value the tick started from (the seed on the first
\* valid reading)
currentMm == IF hist.preHas THEN roundToLong(hist.preFiltered) ELSE hist.rawMm

TargetClamped ==
    (hist.ticked /\ hasValidDistance) =>
        /\ Abs(hist.targetMm - currentMm) <= MAX_STEP_PER_SAMPLE_MM
        /\ Abs(lastGoodMm - currentMm) <= MAX_STEP_PER_SAMPLE_MM
              => hist.targetMm = lastGoodMm
        /\ lastGoodMm - currentMm > MAX_STEP_PER_SAMPLE_MM
              => hist.targetMm = currentMm + MAX_STEP_PER_SAMPLE_MM
        /\ lastGoodMm - currentMm < -MAX_STEP_PER_SAMPLE_MM
              => hist.targetMm = currentMm - MAX_STEP_PER_SAMPLE_MM

\* a target clamped downward
TargetClampedWitness ==
    /\ hist.ticked /\ hist.preHas
    /\ lastGoodMm < currentMm - MAX_STEP_PER_SAMPLE_MM
    /\ hist.targetMm = currentMm - MAX_STEP_PER_SAMPLE_MM

----------------------------------------------------------------------------
(* C17  Trigger sequence: a call writes LOW, HIGH, LOW to the trigger line *)
(* in that order and only then waits for the echo, once; when it returns   *)
(* the line is LOW, with and without an echo.                              *)

TriggerOrder ==
    /\ us.waits <= 1
    /\ us.writes \in {<<>>, <<LOW>>, <<LOW, HIGH>>, <<LOW, HIGH, LOW>>}
    /\ us.waits = 1 => us.writes = <<LOW, HIGH, LOW>>
    /\ us.pc = "done" =>
          (us.waits = 1 /\ us.writes = <<LOW, HIGH, LOW>> /\ trigPin = LOW)

\* a call that returns NoEcho
TriggerOrderWitness ==
    us.pc = "done" /\ us.ret = DIST_INVALID /\ us.waits = 1 /\ trigPin = LOW

----------------------------------------------------------------------------
(* C18  No overshoot: on a tick of the initialized filter the new          *)
(* distFiltered lies between the value the tick started from and           *)
(* lastGoodMm, both included.                                              *)

\* the filter value the tick started from (the seed on the first valid reading)
startFiltered == IF hist.preHas THEN hist.preFiltered ELSE F32FromLong(hist.rawMm)

NoOvershoot ==
    (hist.ticked /\ hasValidDistance) =>
        \/ (startFiltered <= distFiltered /\ distFiltered <= F32FromLong(lastGoodMm))
        \/ (F32FromLong(lastGoodMm) <= distFiltered /\ distFiltered <= startFiltered)

\* an unclamped step that ends strictly between the start and lastGoodMm
NoOvershootWitness ==
    /\ hist.ticked /\ hist.preHas /\ hist.targetMm = lastGoodMm
    /\ startFiltered < distFiltered /\ distFiltered < F32FromLong(lastGoodMm)

----------------------------------------------------------------------------
(* C19  A rejected Distance (below 50 or above 2000) leaves the filter in  *)
(* the state, and the record with the dist_mm, that NoEcho would have      *)
(* given from the same state.                                              *)

RejectedUniform ==
    (hist.ticked /\ Rejected /\ hist.rawMm # DIST_INVALID) =>
        \E good \in {acceptReading(DIST_INVALID, hist.preGood)},
           seeded \in {seedFilter(DIST_INVALID, hist.preHas, hist.preFiltered)},
           has \in {markValid(DIST_INVALID, hist.preHas)} :
        \E filt \in {emaStep(has, seeded, targetOf(has, good, seeded))} :
            /\ lastGoodMm = good
            /\ hasValidDistance = has
            /\ distFiltered = filt
            /\ outMm = outputOf(has, filt)

\* 5145 mm is read while the filter is on its way to the held value
RejectedUniformWitness ==
    /\ hist.ticked /\ hist.rawMm = 5145 /\ hist.preHas
    /\ distFiltered # hist.preFiltered

----------------------------------------------------------------------------
(* C20  Shape of the filter state: hasValidDistance is false exactly when  *)
(* lastGoodMm and distFiltered are both 0; when it is true both are in     *)
(* [50, 2000].                                                             *)

StateShape ==
    /\ ~hasValidDistance <=> (lastGoodMm = 0 /\ distFiltered = 0)
    /\ hasValidDistance =>
          /\ lastGoodMm >= DIST_MIN_MM /\ lastGoodMm <= DIST_MAX_MM
          /\ distFiltered >= F32FromLong(DIST_MIN_MM)
          /\ distFiltered <= F32FromLong(DIST_MAX_MM)

\* the filter at the upper end while the lower end is held
StateShapeWitness ==
    /\ hasValidDistance /\ lastGoodMm = DIST_MIN_MM
    /\ distFiltered > F32FromLong(1900)

----------------------------------------------------------------------------
(* SpecWrap: either program after 49.7 days of running, the millisecond    *)
(* clock about to wrap from 2^32 - 1 to 0; loop() is called early, on time *)
(* and late, with the buttons released and an echo of 500 mm or none       *)

\* milliseconds left on the clock before it wraps
WrapLead == {1, 5, 33, 60}

\* milliseconds since the last sample when the last call of loop() returned:
\* 0 if that call sampled, else less than SAMPLE_INTERVAL_MS
WrapAge == {0, 1, 32}

\* records printed so far; one every 33 ms would be 130150524
WrapRecords == 130150000

\* 2^32 - n, for 0 < n < 2^16
U32Before(n) == <<W16 - 1, W16 - n>>

\* the state the program is in when it has run up to lead ms before the wrap,
\* the sensor having answered with the pulse width duration_us on every tick
\* and the last sample lying age ms back
InitWrap ==
    \E v \in Variants, lead \in WrapLead, age \in WrapAge, duration_us \in GateEchoes :
    \E u \in {usRun(usCall(LOW), duration_us)} :
    \E rawMm \in {u.ret} :
    \E good \in {IF v = "filtered" THEN acceptReading(rawMm, 0) ELSE 0},
       has \in {v = "filtered" /\ markValid(rawMm, FALSE)} :
    \E dist_mm \in {IF v = "filtered" THEN outputOf(has, F32FromLong(good)) ELSE rawMm} :
        /\ variant = v
        /\ pc = "loop"
        /\ millis = U32Before(lead)
        /\ lastSampleMs = U32Before(lead + age)
        /\ since = [gate |-> IF age = 0 THEN SAMPLE_INTERVAL_MS ELSE age, now |-> age]
        /\ hasValidDistance = has
        /\ lastGoodMm = good
        /\ distFiltered = F32FromLong(good)
        /\ trigPin = u.trig
        /\ us = u
        /\ headerLines = 1
        /\ dataLines = WrapRecords
        /\ lastLine = <<0, 0, 0, dist_mm>>
        /\ hist = [ticked |-> age = 0, rawMm |-> rawMm,
                   preHas |-> has, preGood |-> good,
                   preFiltered |-> F32FromLong(good),
                   prevOut |-> dist_mm, targetMm |-> good,
                   runR |-> good, runN |-> 0,
                   rawLog |-> <<rawMm, rawMm, rawMm>>,
                   outLog |-> <<dist_mm, dist_mm, dist_mm>>,
                   pin1 |-> HIGH, pin2 |-> HIGH, adc |-> 0]
        /\ hold = [echo |-> 0, ticks |-> 0]

WrapFiltered ==
    /\ variant = "filtered"
    /\ dataLines < WrapRecords + MaxWrapTicks
    /\ \E elapsed \in GateElapsed : loop(elapsed, {HIGH}, {0}, GateEchoes)
    /\ UNCHANGED hold

WrapUnfiltered ==
    /\ variant = "unfiltered"
    /\ dataLines < WrapRecords + MaxWrapTicks
    /\ \E elapsed \in GateElapsed : loopRaw(elapsed, {HIGH}, {0}, GateEchoes)
    /\ UNCHANGED hold

NextWrap == WrapFiltered \/ WrapUnfiltered

SpecWrap == InitWrap /\ [][NextWrap]_vars

----------------------------------------------------------------------------
(* C21  Clock rollover: the last call of loop() sampled if and only if at  *)
(* least SAMPLE_INTERVAL_MS ms had really passed since the previous        *)
(* sample, also when millis() wrapped from 2^32 - 1 to 0 in between; the   *)
(* distance from lastSampleMs to the clock, modulo 2^32, is the real time  *)
(* since the last sample, which stays below the interval after every call. *)

WrapGate ==
    /\ hist.ticked <=> since.gate >= SAMPLE_INTERVAL_MS
    /\ Add32(lastSampleMs, since.now) = millis
    /\ since.now < SAMPLE_INTERVAL_MS

\* the previous sample was taken before the wrap, the clock has wrapped
\* since, and the call exactly 33 ms after that sample samples
WrapGateWitness ==
    /\ dataLines > WrapRecords
    /\ millis[1] = 0 /\ millis[2] < SAMPLE_INTERVAL_MS
    /\ hist.ticked /\ since.gate = SAMPLE_INTERVAL_MS /\ lastSampleMs = millis

====
